---------------------------- MODULE Spec2Model ----------------------------
(***************************************************************************)
(* Model of the `generate <name>` command of the Flatlogic CLI             *)
(* (commands/generate).  One invocation is one run of the async action     *)
(* handler; every await of the handler is one action of the model, taken   *)
(* when the awaited operation completes, and running the synchronous code  *)
(* up to the next await.  The file system (the target paths, the fixed     *)
(* temporary file, the sidecar files) is shared by all invocations.        *)
(***************************************************************************)
EXTENDS Integers, Sequences, FiniteSets, TLC

\* ------------------------------------------------------------------ bounds
MaxRuns == 2        \* invocations started in one behaviour
NumInv == 2         \* process slots that may run at the same time
ChunkCount == 2     \* bytes of one response body (one byte per chunk)

Inv == 1..NumInv
RunIds == 1..MaxRuns
Names == {"app1", "app2"}

\* ------------------------------------------------------- JavaScript values
\* A value carries its type: strings, booleans, arrays, objects (an ordered
\* list of <<key, value>> members, as property order is insertion order) and
\* undefined.
Str(s) == <<"str", s>>
Bool(b) == <<"bool", b>>
Arr(elems) == <<"arr", elems>>
Obj(members) == <<"obj", members>>
Undefined == <<"undef">>

Keys(o) == [k \in 1..Len(o[2]) |-> o[2][k][1]]
HasKey(o, key) == \E k \in 1..Len(o[2]) : o[2][k][1] = key
Get(o, key) ==
    IF HasKey(o, key)
    THEN o[2][CHOOSE k \in 1..Len(o[2]) : o[2][k][1] = key][2]
    ELSE Undefined

\* { ...a, key: value }: an existing key keeps its place and takes the new
\* value, a new key is appended.
SetKey(o, key, value) ==
    IF HasKey(o, key)
    THEN Obj([k \in 1..Len(o[2]) |->
                 IF o[2][k][1] = key THEN <<key, value>> ELSE o[2][k]])
    ELSE Obj(Append(o[2], <<key, value>>))

RECURSIVE SpreadInto(_, _, _)
SpreadInto(o, members, k) ==
    IF k > Len(members) THEN o
    ELSE SpreadInto(SetKey(o, members[k][1], members[k][2]), members, k + 1)

\* { ...a, ...b }
Spread(a, b) == SpreadInto(a, b[2], 1)

\* ---------------------------------------------------------------- presets
\* The first seven fields list the visibility flags before `editable` and
\* `title`, the last seven after them.
FieldA(name, type, title) ==
    Obj(<< <<"name", Str(name)>>, <<"type", Str(type)>>,
           <<"show_in_form", Bool(TRUE)>>, <<"show_in_table", Bool(TRUE)>>,
           <<"editable", Bool(FALSE)>>, <<"title", Str(title)>> >>)

FieldB(name, type) ==
    Obj(<< <<"name", Str(name)>>, <<"type", Str(type)>>,
           <<"editable", Bool(FALSE)>>, <<"title", Str(name)>>,
           <<"show_in_form", Bool(FALSE)>>, <<"show_in_table", Bool(FALSE)>> >>)

RoleField ==
    Obj(<< <<"name", Str("role")>>, <<"type", Str("enum")>>,
           <<"options", Arr(<<Str("admin"), Str("user")>>)>>,
           <<"widget", Str("radio")>>,
           <<"show_in_form", Bool(TRUE)>>, <<"show_in_table", Bool(TRUE)>>,
           <<"editable", Bool(FALSE)>>, <<"title", Str("Role")>> >>)

PasswordField ==
    Obj(<< <<"name", Str("password")>>, <<"type", Str("string")>>,
           <<"editable", Bool(FALSE)>>, <<"title", Str("Password")>>,
           <<"show_in_form", Bool(FALSE)>>, <<"show_in_table", Bool(FALSE)>> >>)

UsersFields ==
    << FieldA("firstName", "string", "First Name"),
       FieldA("lastName", "string", "Last Name"),
       FieldA("phoneNumber", "string", "Phone Number"),
       FieldA("email", "string", "E-mail"),
       RoleField,
       FieldA("disabled", "boolean", "Disabled"),
       FieldA("avatar", "images", "Avatar"),
       PasswordField,
       FieldB("emailVerified", "boolean"),
       FieldB("emailVerificationToken", "string"),
       FieldB("emailVerificationTokenExpiresAt", "datetime"),
       FieldB("passwordResetToken", "string"),
       FieldB("passwordResetTokenExpiresAt", "datetime"),
       FieldB("provider", "string") >>

UsersEntity ==
    Obj(<< <<"name", Str("users")>>, <<"show_field", Str("firstName")>>,
           <<"fields", Arr(UsersFields)>> >>)

PRESETS == Obj(<< <<"blank", Arr(<<UsersEntity>>)>> >>)

\* A member such as `entities: PRESETS.blank` holds a reference to the
\* preset's array, not a copy of it; the preset store is never written.
Ref(key) == <<"ref", key>>
Lookup(key) == IF HasKey(PRESETS, key) THEN Ref(key) ELSE Undefined
Deref(v) == IF v[1] = "ref" THEN Get(PRESETS, v[2]) ELSE v

\* JSON.stringify(value, null, indent): the text is the document tree and its
\* indentation.  Members whose value is undefined are left out.
RECURSIVE JsonOf(_)
JsonOf(v) ==
    CASE v[1] = "ref" -> JsonOf(Deref(v))
      [] v[1] = "str" -> <<"string", v[2]>>
      [] v[1] = "bool" -> <<IF v[2] THEN "true" ELSE "false">>
      [] v[1] = "arr" ->
            <<"array", [k \in 1..Len(v[2]) |->
                          IF v[2][k][1] = "undef" THEN <<"null">>
                          ELSE JsonOf(v[2][k])]>>
      [] v[1] = "obj" ->
            LET kept == SelectSeq(v[2], LAMBDA m : m[2][1] # "undef")
            IN  <<"object", [k \in 1..Len(kept) |->
                               <<kept[k][1], JsonOf(kept[k][2])>>]>>
      [] OTHER -> <<"null">>

Stringify(v, indent) == [indent |-> indent, doc |-> JsonOf(v)]

\* JSON.parse(text)
RECURSIVE ValueOf(_)
ValueOf(d) ==
    CASE d[1] = "string" -> Str(d[2])
      [] d[1] = "true" -> Bool(TRUE)
      [] d[1] = "false" -> Bool(FALSE)
      [] d[1] = "array" -> Arr([k \in 1..Len(d[2]) |-> ValueOf(d[2][k])])
      [] d[1] = "object" ->
            Obj([k \in 1..Len(d[2]) |-> <<d[2][k][1], ValueOf(d[2][k][2])>>])
      [] OTHER -> <<"null">>

Parse(text) == ValueOf(text.doc)


\* ------------------------------------------------------- option resolver
FlagOrder == <<"frontend", "backend", "db", "design">>
Flags == {FlagOrder[k] : k \in 1..Len(FlagOrder)}

\* !value of JavaScript
Falsy(v) ==
    \/ v[1] = "undef"
    \/ v[1] = "str" /\ v[2] = ""
    \/ v[1] = "bool" /\ ~v[2]

\* Mutant of ValidateOption: `arg[option] === undefined` in place of
\* `!arg[option]`, so an empty value passes.
ValidateOptionUndefinedOnly(arg, option) ==
    IF Get(arg, option) = Undefined
    THEN [exit |-> TRUE, stderr |-> <<"option is required", option>>,
          value |-> Undefined]
    ELSE [exit |-> FALSE, stderr |-> <<>>, value |-> Get(arg, option)]

\* What validateOption does with arg[option]: print and exit, or return it.
ValidateOption(arg, option) ==
    IF Falsy(Get(arg, option))
    THEN [exit |-> TRUE, stderr |-> <<"option is required", option>>,
          value |-> Undefined]
    ELSE [exit |-> FALSE, stderr |-> <<>>, value |-> Get(arg, option)]

\* Mutant of CliMode: backend is read from the frontend flag.
CliModeSwapped(opts) ==
    LET f == ValidateOption(opts, "frontend")
        b == ValidateOption(opts, "backend")
        d == ValidateOption(opts, "db")
        g == ValidateOption(opts, "design")
    IN  IF f.exit \/ b.exit \/ d.exit \/ g.exit
        THEN [exit |-> TRUE,
              stderr |-> IF f.exit THEN f.stderr ELSE IF b.exit THEN b.stderr
                         ELSE IF d.exit THEN d.stderr ELSE g.stderr,
              props |-> Undefined]
        ELSE [exit |-> FALSE, stderr |-> <<>>,
              props |-> Obj(<< <<"frontend", f.value>>, <<"backend", f.value>>,
                               <<"db", d.value>>, <<"design", g.value>>,
                               <<"entities", Lookup("blank")>> >>)]

\* The object literal of cliMode evaluates its members in source order; the
\* first validateOption that exits ends the process there.
CliMode(opts) ==
    LET f == ValidateOption(opts, "frontend")
        b == ValidateOption(opts, "backend")
        d == ValidateOption(opts, "db")
        g == ValidateOption(opts, "design")
    IN  IF f.exit THEN [exit |-> TRUE, stderr |-> f.stderr, props |-> Undefined]
        ELSE IF b.exit THEN [exit |-> TRUE, stderr |-> b.stderr, props |-> Undefined]
        ELSE IF d.exit THEN [exit |-> TRUE, stderr |-> d.stderr, props |-> Undefined]
        ELSE IF g.exit THEN [exit |-> TRUE, stderr |-> g.stderr, props |-> Undefined]
        ELSE [exit |-> FALSE, stderr |-> <<>>,
              props |-> Obj(<< <<"frontend", f.value>>, <<"backend", b.value>>,
                               <<"db", d.value>>, <<"design", g.value>>,
                               <<"entities", Lookup("blank")>> >>)]

\* The questions of interactiveMode: the answer's key and the offered values.
Questions ==
    << [name |-> "frontend", choices |-> {"react"}],
       [name |-> "backend", choices |-> {"nodejs"}],
       [name |-> "db", choices |-> {"postgresql"}],
       [name |-> "design", choices |-> {"classic"}],
       [name |-> "schemaPreset", choices |-> {"blank"}] >>

\* What inquirer.prompt can resolve to: one member per question, in order.
PromptAnswers ==
    {Obj([k \in 1..Len(Questions) |-> <<Questions[k].name, Str(pick[k])>>]) :
        pick \in {p \in [1..Len(Questions) -> UNION {Questions[k].choices :
                                                   k \in 1..Len(Questions)}] :
                     \A k \in 1..Len(Questions) : p[k] \in Questions[k].choices}}

\* Mutant of InteractiveMode: entities is the preset's name, not the preset.
InteractiveModeNoLookup(props) ==
    Spread(props, Obj(<< <<"entities", Get(props, "schemaPreset")>> >>))

\* { ...props, entities: PRESETS[props.schemaPreset] }
InteractiveMode(props) ==
    Spread(props,
           Obj(<< <<"entities", Lookup(Get(props, "schemaPreset")[2])>> >>))

\* { title: name, ...props }
MakeApp(n, props) == Spread(Obj(<< <<"title", Str(n)>> >>), props)

\* The options object commander hands to the action: one key per flag given
\* on the command line.
OptionsOf(given) ==
    Obj([k \in 1..Len(SelectSeq(FlagOrder, LAMBDA x : x \in DOMAIN given)) |->
           LET fl == SelectSeq(FlagOrder, LAMBDA x : x \in DOMAIN given)[k]
           IN  <<fl, Str(given[fl])>>])

\* The command lines tried: every flag is left out, given empty, or given a
\* value of its own (none of them a value the prompts offer: flag values are
\* not validated).
SampleValue ==
    [frontend |-> "vue", backend |-> "laravel", db |-> "mysql",
     design |-> "material"]

OptionInputs ==
    {OptionsOf(g) :
        g \in UNION {{h \in [S -> {""} \cup {SampleValue[f] : f \in Flags}] :
                        \A f \in S : h[f] \in {"", SampleValue[f]}} :
                     S \in SUBSET Flags}}

\* Mutant of HasArguments: only flags with a non-empty value count.
HasArgumentsTruthy(opts) == \E f \in Flags : ~Falsy(Get(opts, f))

\* Object.keys(options).length !== 0
HasArguments(opts) == Len(Keys(opts)) # 0

\* ------------------------------------------------------------ file system
ProjectPath(n) == <<"cwd", n>>
Paths == {ProjectPath(n) : n \in Names}
PathKinds == {"absent", "file", "dir", "other"}

\* Mutant of PathExists: only stat.isDirectory() is looked at.
PathExistsDirOnly(kind) == kind = "dir"

\* pathExists: stat throws for a missing path (false); a path that is neither
\* a regular file nor a directory falls off the end of the function
\* (undefined, which the caller's `if` takes as false).
PathExists(kind) ==
    IF kind = "absent" THEN FALSE
    ELSE IF kind = "dir" \/ kind = "file" THEN TRUE
    ELSE FALSE

NoText == [indent |-> 0, doc |-> <<"none">>]
Hole == <<0, 0, 0>>

\* The response body of invocation r, n bytes long: byte k of the n bytes of
\* r's archive.
Archive(r, n) == [k \in 1..n |-> <<r, k, n>>]

\* extract-zip accepts a complete archive only: all the bytes of one
\* response and nothing else.
IsArchive(content) ==
    IF Len(content) = 0 THEN FALSE
    ELSE content = Archive(content[1][1], content[1][3])

\* Mutant of OpenedContent: the file is opened without truncation (flag
\* 'r+'), so what an earlier run left stays under the new bytes.
OpenedContentKept(content) == content

\* createWriteStream(TEMP_FILE) opens with flag 'w': the file is created, or
\* truncated when it exists.
OpenedContent(content) == <<>>

\* A write of one byte at the stream's own position.
WriteAt(content, offset, byte) ==
    IF offset < Len(content)
    THEN [content EXCEPT ![offset + 1] = byte]
    ELSE content \o [k \in 1..(offset - Len(content)) |-> Hole] \o <<byte>>


\* Mutant of StepAfter: the sidecar is written right after mkdir.
StepAfterSidecarFirst(step) ==
    CASE step = "resolve" -> "mkdir"
      [] step = "mkdir" -> "write"
      [] step = "write" -> "download"
      [] step = "download" -> "extract"
      [] step = "extract" -> "rm"
      [] step = "rm" -> "exited"

\* Mutant of StepAfter: the temporary file is deleted before the extraction.
StepAfterRmFirst(step) ==
    CASE step = "resolve" -> "mkdir"
      [] step = "mkdir" -> "download"
      [] step = "download" -> "rm"
      [] step = "rm" -> "extract"
      [] step = "extract" -> "write"
      [] step = "write" -> "exited"

\* The awaits of the action handler once the options are resolved
\* ("resolve"), each with the step the handler goes on to when it completes.
StepAfter(step) ==
    CASE step = "resolve" -> "mkdir"
      [] step = "mkdir" -> "download"
      [] step = "download" -> "extract"
      [] step = "extract" -> "rm"
      [] step = "rm" -> "write"
      [] step = "write" -> "exited"

\* Mutant of Awaiting: the next operation is issued without awaiting the
\* completion of the one before (a missing `await`).
AwaitingNoWait(flying, done, next) ==
    flying \cup (IF next = "exited" THEN {} ELSE {next})

\* The operations in flight once `done` has completed and the handler has run
\* on to await `next` ("exited": nothing is awaited any more).
Awaiting(flying, done, next) ==
    (flying \ {done}) \cup (IF next = "exited" THEN {} ELSE {next})

\* ------------------------------------------------------------------ state
VARIABLES
    pc,          \* per invocation: the await it is suspended at
    name,        \* the <name> argument
    options,     \* the options object
    kind0,       \* what was at the target path when the invocation started
    app,         \* the Application, once constructed
    sent,        \* whether the POST request was sent
    prompted,    \* whether the prompts were shown
    exitStatus,  \* <<>> while running, <<code>> once the process has ended
    stderr,      \* the error message printed, if any
    log,         \* the I/O steps that completed successfully, in order
    inflight,    \* the I/O operations issued and not yet completed
    id,          \* the invocation's number (names its response body)
    fd,          \* the inode its write stream has open, 0 if none
    pos,         \* the write stream's position
    size,        \* the length of the response body the service sends it
    reused,      \* whether its open found (and truncated) an existing file
    overlap,     \* whether it wrote while another stream had the file open
    fsKind,      \* per target path: absent, file, dir or other
    unpacked,    \* per target path: the archive bytes extracted into it
    sidecar,     \* per target path: the text of .flatlogicrc, if written
    tempPath,    \* the inode TEMP_FILE names, 0 if it does not exist
    inode,       \* per inode: the bytes of the file
    started      \* invocations started so far

procVars == <<pc, name, options, kind0, app, sent, prompted, exitStatus,
              stderr, log, inflight, id, fd, pos, size, reused, overlap>>
fsVars == <<fsKind, unpacked, sidecar, tempPath, inode>>
vars == <<procVars, fsVars, started>>

\* An inode no path names and no stream has open is gone.
Collect(inodes, path, fds) ==
    [r \in RunIds |->
        IF r = path \/ \E i \in Inv : fds[i] = r THEN inodes[r] ELSE <<>>]

Init ==
    /\ pc = [i \in Inv |-> "idle"]
    /\ name = [i \in Inv |-> "app1"]
    /\ options = [i \in Inv |-> Obj(<<>>)]
    /\ kind0 = [i \in Inv |-> "absent"]
    /\ app = [i \in Inv |-> Undefined]
    /\ sent = [i \in Inv |-> FALSE]
    /\ prompted = [i \in Inv |-> FALSE]
    /\ exitStatus = [i \in Inv |-> <<>>]
    /\ stderr = [i \in Inv |-> <<>>]
    /\ log = [i \in Inv |-> <<>>]
    /\ inflight = [i \in Inv |-> {}]
    /\ id = [i \in Inv |-> 0]
    /\ fd = [i \in Inv |-> 0]
    /\ pos = [i \in Inv |-> 0]
    /\ size = [i \in Inv |-> 0]
    /\ reused = [i \in Inv |-> FALSE]
    /\ overlap = [i \in Inv |-> FALSE]
    /\ fsKind \in [Paths -> PathKinds]
    /\ unpacked = [p \in Paths |-> <<>>]
    /\ sidecar = [p \in Paths |-> NoText]
    /\ tempPath = 0
    /\ inode = [r \in RunIds |-> <<>>]
    /\ started = 0

\* The body of the POST request: got serialises { schema: app }.
RequestBody(i) == Stringify(Obj(<< <<"schema", app[i]>> >>), 0)

\* The process of invocation i ends with `code`, having printed `msg`.
Exit(i, code, msg) ==
    /\ pc' = [pc EXCEPT ![i] = "exited"]
    /\ exitStatus' = [exitStatus EXCEPT ![i] = <<code>>]
    /\ stderr' = [stderr EXCEPT ![i] = msg]
    /\ inflight' = [inflight EXCEPT ![i] = {}]

\* An awaited operation rejects: nothing catches it, the process ends with
\* status 1.
Reject(i, cause) == Exit(i, 1, <<"unhandled", cause>>)

\* `step` completed: log it and await the next one; after the last one the
\* handler returns and the process ends with status 0.
Proceed(i, step) ==
    /\ pc' = [pc EXCEPT ![i] = StepAfter(step)]
    /\ log' = [log EXCEPT ![i] = Append(@, step)]
    /\ inflight' = [inflight EXCEPT ![i] = Awaiting(@, step, StepAfter(step))]
    /\ exitStatus' = [exitStatus EXCEPT
                        ![i] = IF StepAfter(step) = "exited" THEN <<0>> ELSE @]
    /\ UNCHANGED stderr

\* `generate n` with options o starts in slot i: the handler computes the
\* project path and awaits pathExists.  sz is the length of the body the
\* service will answer its request with.
Invoke(i, n, o, sz) ==
    /\ pc[i] = "idle"
    /\ started < MaxRuns
    /\ started' = started + 1
    /\ pc' = [pc EXCEPT ![i] = "stat"]
    /\ name' = [name EXCEPT ![i] = n]
    /\ options' = [options EXCEPT ![i] = o]
    /\ kind0' = [kind0 EXCEPT ![i] = fsKind[ProjectPath(n)]]
    /\ inflight' = [inflight EXCEPT ![i] = {"stat"}]
    /\ id' = [id EXCEPT ![i] = started + 1]
    /\ size' = [size EXCEPT ![i] = sz]
    /\ UNCHANGED <<app, sent, prompted, exitStatus, stderr, log, fd, pos,
                   reused, overlap, fsVars>>

\* The ended process of slot i is gone; the slot is free for the next
\* invocation.  Nothing of the process outlives it but the file system.
Reap(i) ==
    /\ pc[i] = "exited"
    /\ started < MaxRuns
    /\ pc' = [pc EXCEPT ![i] = "idle"]
    /\ name' = [name EXCEPT ![i] = "app1"]
    /\ options' = [options EXCEPT ![i] = Obj(<<>>)]
    /\ kind0' = [kind0 EXCEPT ![i] = "absent"]
    /\ app' = [app EXCEPT ![i] = Undefined]
    /\ sent' = [sent EXCEPT ![i] = FALSE]
    /\ prompted' = [prompted EXCEPT ![i] = FALSE]
    /\ exitStatus' = [exitStatus EXCEPT ![i] = <<>>]
    /\ stderr' = [stderr EXCEPT ![i] = <<>>]
    /\ log' = [log EXCEPT ![i] = <<>>]
    /\ id' = [id EXCEPT ![i] = 0]
    /\ pos' = [pos EXCEPT ![i] = 0]
    /\ size' = [size EXCEPT ![i] = 0]
    /\ reused' = [reused EXCEPT ![i] = FALSE]
    /\ overlap' = [overlap EXCEPT ![i] = FALSE]
    /\ UNCHANGED <<inflight, fd, fsVars, started>>

\* pathExists resolves; the handler runs on to the next await: it exits when
\* the path exists, else resolves the options from the flags (and exits on a
\* missing one, or builds the Application and awaits mkdir) or shows the
\* prompts.
StatDone(i) ==
    /\ pc[i] = "stat"
    /\ IF PathExists(fsKind[ProjectPath(name[i])])
       THEN /\ Exit(i, 1, <<"folder already exists", name[i]>>)
            /\ log' = [log EXCEPT ![i] = Append(@, "stat")]
            /\ UNCHANGED <<app, prompted>>
       ELSE IF HasArguments(options[i])
       THEN LET r == CliMode(options[i])
            IN  IF r.exit
                THEN /\ Exit(i, 1, r.stderr)
                     /\ log' = [log EXCEPT ![i] = Append(@, "stat")]
                     /\ UNCHANGED <<app, prompted>>
                ELSE /\ app' = [app EXCEPT ![i] = MakeApp(name[i], r.props)]
                     /\ pc' = [pc EXCEPT ![i] = StepAfter("resolve")]
                     /\ log' = [log EXCEPT ![i] = Append(@, "stat")]
                     /\ inflight' = [inflight EXCEPT
                          ![i] = Awaiting(@, "stat", StepAfter("resolve"))]
                     /\ UNCHANGED <<prompted, exitStatus, stderr>>
       ELSE /\ pc' = [pc EXCEPT ![i] = "prompt"]
            /\ prompted' = [prompted EXCEPT ![i] = TRUE]
            /\ log' = [log EXCEPT ![i] = Append(@, "stat")]
            /\ inflight' = [inflight EXCEPT
                              ![i] = Awaiting(@, "stat", "prompt")]
            /\ UNCHANGED <<app, exitStatus, stderr>>
    /\ UNCHANGED <<name, options, kind0, sent, id, fd, pos, size, reused, overlap, fsVars,
                   started>>

\* The user has answered every prompt: the Application is built and mkdir
\* awaited.
PromptDone(i) ==
    /\ pc[i] = "prompt"
    /\ \E answers \in PromptAnswers :
          app' = [app EXCEPT ![i] = MakeApp(name[i], InteractiveMode(answers))]
    /\ pc' = [pc EXCEPT ![i] = StepAfter("resolve")]
    /\ inflight' = [inflight EXCEPT
                      ![i] = Awaiting(@, "prompt", StepAfter("resolve"))]
    /\ UNCHANGED <<name, options, kind0, sent, prompted, exitStatus, stderr,
                   log, id, fd, pos, size, reused, overlap, fsVars, started>>

\* fs.mkdir resolves: the directory exists now; the handler starts the
\* pipeline (the POST request is sent, the write stream opens TEMP_FILE).
MkdirDone(i) ==
    /\ pc[i] = "mkdir"
    /\ fsKind[ProjectPath(name[i])] = "absent"
    /\ fsKind' = [fsKind EXCEPT ![ProjectPath(name[i])] = "dir"]
    /\ sent' = [sent EXCEPT ![i] = TRUE]
    /\ Proceed(i, "mkdir")
    /\ UNCHANGED <<name, options, kind0, app, prompted, id,
                   fd, pos, size, reused, overlap, unpacked, sidecar, tempPath, inode, started>>

\* fs.mkdir rejects: something is at the path (a path pathExists did not
\* count, or one created since).
MkdirFail(i) ==
    /\ pc[i] = "mkdir"
    /\ fsKind[ProjectPath(name[i])] # "absent"
    /\ Reject(i, "mkdir EEXIST")
    /\ UNCHANGED <<name, options, kind0, app, sent, prompted, log, id, fd, pos, size,
                   reused, overlap, fsVars, started>>

\* The write stream's open completes: TEMP_FILE is created or truncated.
OpenDone(i) ==
    /\ pc[i] = "download"
    /\ fd[i] = 0
    /\ LET target == IF tempPath = 0 THEN id[i] ELSE tempPath
       IN  /\ tempPath' = target
           /\ fd' = [fd EXCEPT ![i] = target]
           /\ inode' = [inode EXCEPT ![target] = OpenedContent(@)]
    /\ reused' = [reused EXCEPT ![i] = tempPath # 0]
    /\ UNCHANGED <<overlap, pc, name, options, kind0, app, sent, prompted, exitStatus,
                   stderr, log, inflight, id, pos, size, fsKind, unpacked, sidecar,
                   started>>

\* One chunk of the response body is written to the stream.
Chunk(i) ==
    /\ pc[i] = "download"
    /\ fd[i] # 0
    /\ pos[i] < size[i]
    /\ inode' = [inode EXCEPT
                   ![fd[i]] = WriteAt(@, pos[i], Archive(id[i], size[i])[pos[i] + 1])]
    /\ pos' = [pos EXCEPT ![i] = @ + 1]
    /\ overlap' = [overlap EXCEPT
                     ![i] = @ \/ \E j \in Inv \ {i} : fd[j] = fd[i]]
    /\ UNCHANGED <<size, pc, name, options, kind0, app, sent, prompted, exitStatus,
                   stderr, log, inflight, id, fd, reused, fsKind, unpacked,
                   sidecar, tempPath, started>>

\* The response has ended and the stream is flushed and closed: the pipeline
\* resolves and extract is awaited.
DownloadDone(i) ==
    /\ pc[i] = "download"
    /\ fd[i] # 0
    /\ pos[i] = size[i]
    /\ fd' = [fd EXCEPT ![i] = 0]
    /\ inode' = Collect(inode, tempPath, fd')
    /\ Proceed(i, "download")
    /\ UNCHANGED <<name, options, kind0, app, sent, prompted, id, pos, size, reused, overlap, fsKind, unpacked, sidecar, tempPath,
                   started>>

\* The pipeline rejects: the open failed, or the request failed (a network
\* error, a non-success response) with the file already created.
DownloadFail(i) ==
    /\ pc[i] = "download"
    /\ fd' = [fd EXCEPT ![i] = 0]
    /\ inode' = Collect(inode, tempPath, fd')
    /\ Reject(i, IF fd[i] = 0 THEN "open error" ELSE "request failed")
    /\ UNCHANGED <<name, options, kind0, app, sent, prompted, log, id, pos, size,
                   reused, overlap, fsKind, unpacked, sidecar, tempPath, started>>

\* Whether TEMP_FILE exists and holds a complete archive.
TempIsArchive == IF tempPath = 0 THEN FALSE ELSE IsArchive(inode[tempPath])

\* extract resolves: what TEMP_FILE holds is a complete archive and is
\* unpacked into the project directory.
ExtractDone(i) ==
    /\ pc[i] = "extract"
    /\ TempIsArchive
    /\ unpacked' = [unpacked EXCEPT ![ProjectPath(name[i])] = inode[tempPath]]
    /\ Proceed(i, "extract")
    /\ UNCHANGED <<name, options, kind0, app, sent, prompted, id, fd, pos, size, reused, overlap, fsKind, sidecar, tempPath, inode,
                   started>>

\* extract rejects: TEMP_FILE is missing or holds no complete archive.
ExtractFail(i) ==
    /\ pc[i] = "extract"
    /\ ~TempIsArchive
    /\ Reject(i, IF tempPath = 0 THEN "extract ENOENT" ELSE "extract bad archive")
    /\ UNCHANGED <<name, options, kind0, app, sent, prompted, log, id, fd, pos, size,
                   reused, overlap, fsVars, started>>

\* What TEMP_FILE names once rm has resolved.
Removed(path) == 0

\* rm resolves: TEMP_FILE is unlinked.
RmDone(i) ==
    /\ pc[i] = "rm"
    /\ tempPath # 0
    /\ tempPath' = Removed(tempPath)
    /\ inode' = Collect(inode, tempPath', fd)
    /\ Proceed(i, "rm")
    /\ UNCHANGED <<name, options, kind0, app, sent, prompted, id, fd, pos, size, reused, overlap, fsKind, unpacked, sidecar,
                   started>>

\* rm rejects: TEMP_FILE is missing (rm is called without force).
RmFail(i) ==
    /\ pc[i] = "rm"
    /\ tempPath = 0
    /\ Reject(i, "rm ENOENT")
    /\ UNCHANGED <<name, options, kind0, app, sent, prompted, log, id, fd, pos, size,
                   reused, overlap, fsVars, started>>

\* writeFile resolves: .flatlogicrc holds JSON.stringify(app, null, 2); the
\* handler returns and the process ends with status 0.
WriteDone(i) ==
    /\ pc[i] = "write"
    /\ fsKind[ProjectPath(name[i])] = "dir"
    /\ sidecar' = [sidecar EXCEPT ![ProjectPath(name[i])] = Stringify(app[i], 2)]
    /\ Proceed(i, "write")
    /\ UNCHANGED <<name, options, kind0, app, sent, prompted, id, fd, pos, size,
                   reused, overlap, fsKind, unpacked, tempPath, inode, started>>

\* An awaited file-system operation (mkdir, extract, rm, writeFile) rejects
\* for a reason of the environment (permissions, a full disk): it has no
\* effect and the process ends.
IoError(i) ==
    /\ pc[i] \in {"mkdir", "extract", "rm", "write"}
    /\ Reject(i, "io error")
    /\ UNCHANGED <<name, options, kind0, app, sent, prompted, log, id, fd, pos, size,
                   reused, overlap, fsVars, started>>

\* One invocation at a time (the supported use): the single flow of slot 1,
\* run again and again against the same file system.
Next ==
    \/ \E n \in Names, o \in OptionInputs, sz \in 1..ChunkCount :
          Invoke(1, n, o, sz)
    \/ StatDone(1)
    \/ PromptDone(1)
    \/ MkdirDone(1)
    \/ MkdirFail(1)
    \/ OpenDone(1)
    \/ Chunk(1)
    \/ DownloadDone(1)
    \/ DownloadFail(1)
    \/ ExtractDone(1)
    \/ RmDone(1)
    \/ WriteDone(1)
    \/ IoError(1)
    \/ Reap(1)

Spec == Init /\ [][Next]_vars

\* Invocations at the same time (not a supported use): every slot runs one
\* invocation with all four flags, no target path exists at the start, and
\* the only failures are those the invocations cause one another.
ConcInputs == {OptionsOf(SampleValue)}

InitConc == Init /\ fsKind = [p \in Paths |-> "absent"]

NextConc ==
    \E i \in Inv :
        \/ \E n \in Names, o \in ConcInputs : Invoke(i, n, o, ChunkCount)
        \/ StatDone(i)
        \/ MkdirDone(i)
        \/ MkdirFail(i)
        \/ OpenDone(i)
        \/ Chunk(i)
        \/ DownloadDone(i)
        \/ DownloadFail(i)
        \/ ExtractDone(i)
        \/ ExtractFail(i)
        \/ RmDone(i)
        \/ RmFail(i)
        \/ WriteDone(i)

SpecConc == InitConc /\ [][NextConc]_vars


\* ================================================================= claims
Range(q) == {q[k] : k \in 1..Len(q)}
IsPrefix(q, r) == Len(q) <= Len(r) /\ q = SubSeq(r, 1, Len(q))
Target(i) == ProjectPath(name[i])
Started(i) == pc[i] # "idle"
PastStat(i) == pc[i] \notin {"idle", "stat"}
Ended(i, code) == pc[i] = "exited" /\ exitStatus[i] = <<code>>
\* The flags of the command line that are absent or empty.
Missing(i) ==
    {f \in Flags : Get(options[i], f) = Undefined \/ Get(options[i], f) = Str("")}
NoFlags(i) == options[i] = Obj(<<>>)
\* Something pathExists counts was at the target path at the start.
Existed(i) == kind0[i] \in {"file", "dir"}
RequiredMessage(f) == <<"option is required", f>>
\* Nothing of the invocation has touched the file system or the network.
NoEffect(i) ==
    /\ fsKind[Target(i)] = kind0[i]
    /\ ~sent[i]
    /\ fd[i] = 0 /\ pos[i] = 0 /\ ~reused[i]
    /\ log[i] = <<"stat">>

\* What holds of such a run once pathExists has resolved.
C1_State ==
    \A i \in Inv : \A f \in Flags :
        (PastStat(i) /\ Missing(i) = {f} /\ ~Existed(i))
            => /\ Ended(i, 1)
               /\ stderr[i] = RequiredMessage(f)
               /\ ~prompted[i]
               /\ app[i] = Undefined
               /\ NoEffect(i)

\* What every step taken during such a run leaves alone.
C1_Frame ==
    \A i \in Inv :
        (Started(i) /\ Cardinality(Missing(i)) = 1 /\ ~Existed(i))
            => UNCHANGED fsVars

\* ---- C1 (as amended).  In non-interactive mode with exactly one of the four
\* required options absent or empty, and no file or directory at the target
\* path, the process ends at the validation with status 1 and a message
\* naming that option; the target path is not created, no request is sent,
\* and no step of the invocation changes the file system (no directory, no
\* temporary file, no sidecar).
C1_OneMissingOptionExits == [](C1_State) /\ [][C1_Frame]_vars

\* C1 witness: the run that leaves out only --design (the last one checked)
\* has ended at the validation.
C1_Witness ==
    \E i \in Inv :
        /\ Missing(i) = {"design"} /\ ~Existed(i)
        /\ Ended(i, 1) /\ stderr[i] = RequiredMessage("design")

\* C1 as originally stated: the same for every state of the target path.
C1_Original ==
    \A i \in Inv : \A f \in Flags :
        (PastStat(i) /\ Missing(i) = {f})
            => /\ Ended(i, 1)
               /\ stderr[i] = RequiredMessage(f)
               /\ NoEffect(i)

\* What holds of a run against an existing target once pathExists has
\* resolved.
C2_State ==
    \A i \in Inv :
        (PastStat(i) /\ Existed(i))
            => /\ Ended(i, 1)
               /\ stderr[i] = <<"folder already exists", name[i]>>
               /\ ~prompted[i]
               /\ app[i] = Undefined
               /\ NoEffect(i)

\* What every step taken during such a run leaves alone.
C2_Frame ==
    \A i \in Inv : (Started(i) /\ Existed(i)) => UNCHANGED fsVars

\* ---- C2.  If a file or directory is at the target path when the invocation
\* starts, then whatever the flags the process ends with status 1 at the
\* existence check: no prompt is shown, no Application is built, no request
\* is sent, and no step of the invocation changes the file system (the path,
\* every directory, the temporary file and the sidecars stay as they were).
C2_ExistingTargetUntouched == [](C2_State) /\ [][C2_Frame]_vars

\* C2 witness: a run without flags against an existing regular file, and it
\* has ended.
C2_Witness ==
    \E i \in Inv :
        /\ kind0[i] = "file" /\ NoFlags(i)
        /\ Ended(i, 1) /\ fsKind[Target(i)] = "file"

\* ---- C3.  A run with all four flags non-empty that ends with status 0 (the
\* target did not exist and every step succeeded) leaves the target
\* directory, no temporary file, and a sidecar that parses to an Application
\* with exactly the keys title, frontend, backend, db, design, entities in
\* that order, whose title is the name, whose four choices are the flag
\* values, whose entities are the blank preset, and which equals the schema
\* of the POST body.
C3_SuccessfulRun ==
    \A i \in Inv :
        (Ended(i, 0) /\ ~NoFlags(i))
            => LET parsed == Parse(sidecar[Target(i)])
               IN  /\ Missing(i) = {} /\ kind0[i] \notin {"file", "dir"}
                   /\ fsKind[Target(i)] = "dir"
                   /\ tempPath = 0
                   /\ sidecar[Target(i)] # NoText
                   /\ sidecar[Target(i)].indent = 2
                   /\ Keys(parsed) = <<"title", "frontend", "backend", "db",
                                       "design", "entities">>
                   /\ Get(parsed, "title") = Str(name[i])
                   /\ \A f \in Flags : Get(parsed, f) = Get(options[i], f)
                   /\ Get(parsed, "entities") = Arr(<<UsersEntity>>)
                   /\ sent[i]
                   /\ parsed = Get(Parse(RequestBody(i)), "schema")

\* C3 witness: such a run has ended with status 0.
C3_Witness ==
    \E i \in Inv :
        /\ Ended(i, 0) /\ Missing(i) = {} /\ kind0[i] = "absent"
        /\ sidecar[Target(i)] # NoText


\* The I/O steps of one invocation, in the order the claims give them:
\* existence check, create directory, POST and stream to the temporary file,
\* extract, delete the temporary file, write the sidecar.
StrictOrder == <<"stat", "mkdir", "download", "extract", "rm", "write">>
PlaceOf(step) == CHOOSE k \in 1..Len(StrictOrder) : StrictOrder[k] = step

\* ---- C4.  A run whose request fails ends with a non-zero status and no
\* sidecar at its target path; wherever a sidecar exists, the directory was
\* created and an archive was completely downloaded and extracted into it;
\* and a run that has written its sidecar has completed mkdir, the download,
\* the extraction and the deletion of the temporary file before, in that
\* order, the temporary file being gone.
C4_SidecarOnlyAfterAllSteps ==
    /\ \A i \in Inv :
          (pc[i] = "exited" /\ stderr[i] = <<"unhandled", "request failed">>)
              => /\ exitStatus[i] = <<1>>
                 /\ sidecar[Target(i)] = NoText
    /\ \A p \in Paths :
          sidecar[p] # NoText => fsKind[p] = "dir" /\ IsArchive(unpacked[p])
    /\ \A i \in Inv :
          "write" \in Range(log[i])
              => /\ log[i] = <<"stat", "mkdir", "download", "extract", "rm",
                               "write">>
                 /\ tempPath = 0
                 /\ sidecar[Target(i)] # NoText

\* C4 witness: a request that failed after part of the body had arrived; the
\* directory is there, the sidecar is not.
C4_Witness ==
    \E i \in Inv :
        /\ pc[i] = "exited" /\ stderr[i] = <<"unhandled", "request failed">>
        /\ pos[i] > 0
        /\ fsKind[Target(i)] = "dir" /\ sidecar[Target(i)] = NoText

\* The first missing flag in the order frontend, backend, db, design.
FirstMissing(i) ==
    IF "frontend" \in Missing(i) THEN "frontend"
    ELSE IF "backend" \in Missing(i) THEN "backend"
    ELSE IF "db" \in Missing(i) THEN "db"
    ELSE "design"

\* ---- C5 (as amended).  Provided no file or directory is at the target path:
\* the prompts are shown if and only if no flag at all is on the command
\* line; with at least one flag (even an empty one) no prompt is shown, and
\* if any of the four is absent or empty the process ends with status 1 and
\* the message names the first missing flag in the order frontend, backend,
\* db, design, and only that one.  (With a file or directory at the target
\* path no prompt is shown and the message is about the path.)
C5_ModeSelection ==
    \A i \in Inv :
        PastStat(i) =>
            /\ prompted[i] <=> (NoFlags(i) /\ ~Existed(i))
            /\ (~NoFlags(i) /\ Missing(i) # {} /\ ~Existed(i))
                  => /\ Ended(i, 1)
                     /\ stderr[i] = RequiredMessage(FirstMissing(i))

\* C5 witness: two flags are missing, the first in order is given but empty,
\* and the run has ended naming it.
C5_Witness ==
    \E i \in Inv :
        /\ ~Existed(i) /\ Ended(i, 1)
        /\ Get(options[i], "frontend") = Str(SampleValue["frontend"])
        /\ Get(options[i], "backend") = Str("")
        /\ "design" \in Missing(i)
        /\ stderr[i] = RequiredMessage("backend")

\* C5 as originally stated: without the proviso on the target path.
C5_Original ==
    \A i \in Inv :
        PastStat(i) =>
            /\ prompted[i] <=> NoFlags(i)
            /\ (~NoFlags(i) /\ Missing(i) # {})
                  => /\ Ended(i, 1)
                     /\ stderr[i] = RequiredMessage(FirstMissing(i))

\* ---- C6.  In both modes the Application built, sent and persisted has
\* exactly the keys title, frontend, backend, db, design, entities.
ApplicationKeys == {"title", "frontend", "backend", "db", "design", "entities"}

C6_ExactKeys ==
    \A i \in Inv :
        /\ app[i] # Undefined => Range(Keys(app[i])) = ApplicationKeys
        /\ sent[i] =>
              Range(Keys(Get(Parse(RequestBody(i)), "schema"))) = ApplicationKeys
        /\ (Ended(i, 0) /\ sidecar[Target(i)] # NoText) =>
              Range(Keys(Parse(sidecar[Target(i)]))) = ApplicationKeys

\* The names of the fields of `users`, in order.
UsersFieldNames ==
    <<"firstName", "lastName", "phoneNumber", "email", "role", "disabled",
      "avatar", "password", "emailVerified", "emailVerificationToken",
      "emailVerificationTokenExpiresAt", "passwordResetToken",
      "passwordResetTokenExpiresAt", "provider">>

\* `entities` is one Entity named users with n fields.
IsUsersPreset(entities, n) ==
    /\ entities[1] = "arr" /\ Len(entities[2]) = 1
    /\ Get(entities[2][1], "name") = Str("users")
    /\ Len(Get(entities[2][1], "fields")[2]) = n

\* ---- C7 (as amended).  The preset store defines exactly one preset, blank:
\* one Entity named users with fourteen fields (the thirteen the claim
\* counts, and provider).  It is the entities of every Application built in
\* non-interactive mode and in interactive mode after selecting Blank, and
\* of every sidecar written, field for field and in order.
C7_BlankPreset ==
    /\ Keys(PRESETS) = <<"blank">>
    /\ \A i \in Inv :
          app[i] # Undefined =>
              LET e == Deref(Get(app[i], "entities"))
              IN  /\ IsUsersPreset(e, Len(UsersFieldNames))
                  /\ \A k \in 1..Len(UsersFieldNames) :
                        Get(Get(e[2][1], "fields")[2][k], "name")
                            = Str(UsersFieldNames[k])
                  /\ e = Get(PRESETS, "blank")
    /\ \A p \in Paths :
          sidecar[p] # NoText =>
              Get(Parse(sidecar[p]), "entities") = Get(PRESETS, "blank")

\* C7 witness: an interactive run (Blank selected) has written its sidecar.
C7_Witness ==
    \E i \in Inv :
        /\ NoFlags(i) /\ prompted[i] /\ Ended(i, 0)
        /\ sidecar[Target(i)] # NoText

\* C7 as originally stated: users has thirteen fields.
C7_Original ==
    \A i \in Inv :
        app[i] # Undefined =>
            IsUsersPreset(Deref(Get(app[i], "entities")), Len(UsersFieldNames) - 1)

\* The order of the completed steps and the operations in flight.
C8_State ==
    \A i \in Inv :
        /\ IsPrefix(log[i], StrictOrder)
        /\ Cardinality(inflight[i]) <= 1
        /\ \A op \in inflight[i] :
              /\ op \in Range(StrictOrder) \cup {"prompt"}
              /\ op = "prompt" => log[i] = <<"stat">>
              /\ op # "prompt" => log[i] = SubSeq(StrictOrder, 1, PlaceOf(op) - 1)
        /\ sent[i] => "mkdir" \in Range(log[i])
        /\ pc[i] \notin {"idle", "exited"} => inflight[i] = {pc[i]}

\* What no step changes a second time.
C8_Once ==
    /\ \A i \in Inv :
          (pc'[i] # "idle") =>
              /\ app[i] # Undefined => app'[i] = app[i]
              /\ sent[i] => sent'[i]
              /\ Len(log'[i]) >= Len(log[i])
    /\ \A p \in Paths : sidecar[p] # NoText => sidecar'[p] = sidecar[p]

\* ---- C8.  Within one invocation the I/O steps complete in the strict order
\* existence check, mkdir, download, extract, rm, write, each at most once;
\* at most one operation is in flight at any time, and an operation in
\* flight has all and only the steps before it completed; the request is
\* sent only after mkdir completed.  The Application is built once, the
\* request sent once and a sidecar written once: none of them changes again
\* while the process lives.
C8_StrictOrder == [](C8_State) /\ [][C8_Once]_vars

\* C8 witness: a run has completed all six steps.
C8_Witness == \E i \in Inv : log[i] = StrictOrder /\ Ended(i, 0)


\* The bytes invocation i extracted are not those of its own response.
ExtractedForeign(i) ==
    /\ "extract" \in Range(log[i])
    /\ unpacked[Target(i)] # Archive(id[i], size[i])

\* ---- C9.  Invocations running at the same time share the one temporary file
\* with nothing to keep them apart: an invocation that awaits the open of
\* the temporary file can always open (and truncate) it, whatever the others
\* are doing with it.  The harm comes from the other invocations and from
\* nothing else: an extraction finds the temporary file missing only when
\* another invocation has deleted it, and an invocation extracts bytes that
\* are not its own response only when they are the complete response of
\* another invocation that has written it to the temporary file; and writes
\* overlap only where one of two invocations opened the file the other had
\* created.
C9_UnguardedTempFile ==
    \A i \in Inv :
        /\ (pc[i] = "download" /\ fd[i] = 0) => ENABLED OpenDone(i)
        /\ stderr[i] = <<"unhandled", "extract ENOENT">>
              => \E j \in Inv \ {i} : "rm" \in Range(log[j])
        /\ ExtractedForeign(i)
              => \E j \in Inv \ {i} :
                    /\ unpacked[Target(i)] = Archive(id[j], size[j])
                    /\ pos[j] = size[j]
        /\ overlap[i] => \E j \in Inv \ {i} : reused[i] \/ reused[j]

\* C9 witness: two invocations with different target names, neither existing
\* at the start; both wrote to the temporary file while the other had it
\* open; i extracted the bytes of j's response into its own directory and
\* deleted the temporary file, and j's extraction then found it missing.
C9_Witness ==
    \E i \in Inv : \E j \in Inv \ {i} :
        /\ name[i] # name[j]
        /\ kind0[i] = "absent" /\ kind0[j] = "absent"
        /\ overlap[i] /\ overlap[j]
        /\ unpacked[Target(i)] = Archive(id[j], size[j])
        /\ "rm" \in Range(log[i])
        /\ pc[j] = "exited" /\ stderr[j] = <<"unhandled", "extract ENOENT">>

\* ---- C10.  Invocations one after another: whenever an invocation awaits
\* the extraction, the temporary file holds exactly the bytes of its own
\* response, whatever an earlier failed invocation left there; so a run that
\* ends with status 0 has extracted its own response only, and the
\* temporary file does not exist after it.
C10_OwnBytesOnly ==
    \A i \in Inv :
        /\ pc[i] = "extract"
              => IF tempPath = 0 THEN FALSE
                 ELSE inode[tempPath] = Archive(id[i], size[i])
        /\ Ended(i, 0)
              => /\ unpacked[Target(i)] = Archive(id[i], size[i])
                 /\ tempPath = 0

\* C10 witness: a run ended with status 0 although its open of the temporary
\* file found the longer leftover of an earlier failed run.
C10_Witness ==
    \E i \in Inv :
        /\ Ended(i, 0) /\ reused[i] /\ id[i] > 1
        /\ size[i] < ChunkCount
        /\ unpacked[Target(i)] = Archive(id[i], size[i])

=============================================================================
